---------------------------- MODULE Spec2Model ----------------------------
(***************************************************************************)
(* Model of add-logo.py: one run of the watermark command-line utility.   *)
(* The run is a sequential script; each action below is one step of        *)
(* main() / add_logo() in source order.  The file system, the PATH and     *)
(* the external ImageMagick commands are the environment: their answers    *)
(* are chosen nondeterministically.                                        *)
(***************************************************************************)
EXTENDS Integers, Sequences, FiniteSets, TLC

(* ---------------------------- bounds ----------------------------------- *)
MaxWidth == 50
MaxHeight == 2
OpacitySlack == 1

(* ------------------------ program constants ---------------------------- *)
OpacityLo == 0
OpacityHi == 100
DefaultOpacity == 70
ParserErrorStatus == 2

LOGOS == {"logo", "logooutlined", "seal", "sealoutlined"}
DEFAULT_LOGO == "logo"

(* ------------------------- input domains ------------------------------- *)
LogoArgs == LOGOS \cup {"bogus"}
Opacities == ((OpacityLo - OpacitySlack)..OpacityLo) \cup {DefaultOpacity}
               \cup (OpacityHi..(OpacityHi + OpacitySlack))
OutputArgs == {"", "out.png"}
LargeWidths == {1000, 1920, 3840}
Widths == (0..MaxWidth) \cup LargeWidths
Heights == 1..MaxHeight
InputPath == "photo.png"

VARIABLES
    argv,          \* the command line: form, logo, opacity, output
    fs_input,      \* os.path.exists(input_image)
    fs_logo,       \* logo_svg.exists()
    path_magick,   \* `which magick` succeeds
    path_convert,  \* `which convert` succeeds
    pc,            \* position of the script
    magick_cmd,    \* result of check_dependencies()
    output_image,  \* resolved output path
    img_width, img_height,
    logo_size, margin, opacity_mult,
    tmp_logo,      \* TRUE while the temporary raster file exists on disk
    output_written,\* TRUE once something was written at the output path
    cmds,          \* delegated commands executed so far, in order
    printed,       \* messages printed so far, in order
    unwinding,     \* how the try block of add_logo was left
    exit_status    \* {} while running, {code} once the process has exited

vars == <<argv, fs_input, fs_logo, path_magick, path_convert, pc, magick_cmd,
          output_image, img_width, img_height, logo_size, margin,
          opacity_mult, tmp_logo, output_written, cmds, printed, unwinding,
          exit_status>>

env == <<argv, fs_input, fs_logo, path_magick, path_convert>>
geo == <<img_width, img_height, logo_size, margin, opacity_mult>>

(* ------------------- IEEE-754 double arithmetic ------------------------ *)
(* Bit sequences are least-significant bit first.                          *)
HexBits(h) == <<h % 2, (h \div 2) % 2, (h \div 4) % 2, h \div 8>>

RECURSIVE HexToBits(_)
HexToBits(hs) ==
    IF hs = <<>> THEN <<>>
    ELSE HexToBits(Tail(hs)) \o HexBits(Head(hs))

RECURSIVE BitsToNat(_)
BitsToNat(bs) ==
    IF bs = <<>> THEN 0 ELSE Head(bs) + 2 * BitsToNat(Tail(bs))

RECURSIVE NatToBits(_)
NatToBits(n) ==
    IF n = 0 THEN <<>> ELSE <<n % 2>> \o NatToBits(n \div 2)

RECURSIVE Normalize(_)
Normalize(bs) ==
    IF bs = <<>> THEN <<>>
    ELSE IF bs[Len(bs)] = 0 THEN Normalize(SubSeq(bs, 1, Len(bs) - 1))
    ELSE bs

RECURSIVE MulCarry(_, _, _)
MulCarry(w, bs, carry) ==
    IF bs = <<>> THEN NatToBits(carry)
    ELSE LET acc == carry + w * Head(bs)
         IN  <<acc % 2>> \o MulCarry(w, Tail(bs), acc \div 2)

RECURSIVE Increment(_)
Increment(bs) ==
    IF bs = <<>> THEN <<1>>
    ELSE IF Head(bs) = 0 THEN <<1>> \o Tail(bs)
    ELSE <<0>> \o Increment(Tail(bs))

(* The literals 0.10 and 0.02 as doubles: 53-bit significand and the      *)
(* power of two of its lowest bit.                                         *)
Double010 == [sig |-> Normalize(HexToBits(<<1, 9, 9, 9, 9, 9, 9, 9, 9, 9, 9, 9, 9, 10>>)),
              exp |-> 0 - 56]
Double002 == [sig |-> Normalize(HexToBits(<<1, 4, 7, 10, 14, 1, 4, 7, 10, 14, 1, 4, 7, 11>>)),
              exp |-> 0 - 58]

(* w * d for an int w >= 0 and a double d: the exact product rounded to   *)
(* 53 significant bits, ties to even.                                      *)
FloatMul(w, d) ==
    LET p == Normalize(MulCarry(w, d.sig, 0))
        n == Len(p)
        drop == n - 53
    IN  IF drop <= 0 THEN [sig |-> p, exp |-> d.exp]
        ELSE LET kept == SubSeq(p, drop + 1, n)
                 guard == p[drop]
                 sticky == \E i \in 1..(drop - 1) : p[i] = 1
                 up == guard = 1 /\ (sticky \/ kept[1] = 1)
             IN  [sig |-> IF up THEN Increment(kept) ELSE kept,
                  exp |-> d.exp + drop]

RECURSIVE Pow2(_)
Pow2(k) == IF k = 0 THEN 1 ELSE 2 * Pow2(k - 1)

(* int(x) for a double x >= 0: truncation toward zero.                     *)
FloatToInt(x) ==
    IF x.exp >= 0 THEN BitsToNat(x.sig) * Pow2(x.exp)
    ELSE IF 0 - x.exp >= Len(x.sig) THEN 0
    ELSE BitsToNat(SubSeq(x.sig, 1 - x.exp, Len(x.sig)))

(* --------------------------- pure helpers ------------------------------ *)
\* add_logo: logo_size = int(img_width * 0.10)
LogoSizeRounded(w) == FloatToInt(FloatMul(w + 5, Double010))
LogoSize(w) == FloatToInt(FloatMul(w, Double010))

\* add_logo: margin = int(img_width * 0.02)
Margin(w) == FloatToInt(FloatMul(w, Double002))

\* add_logo: opacity_mult = opacity / 100.0, kept as the exact quotient
OpacityMult(o) == [num |-> o, den |-> 100]

\* main: args.opacity < 0 or args.opacity > 100
OpacityOnlyLowerChecked(o) == o < OpacityLo
OpacityInvalid(o) == o < OpacityLo \/ o > OpacityHi

\* check_dependencies: the returned selector, "" standing for False
PreferLegacy(has_magick, has_convert) ==
    IF ~has_magick /\ ~has_convert THEN ""
    ELSE IF has_convert THEN "convert" ELSE "magick"
AssumeLegacy(has_magick, has_convert) ==
    IF has_magick THEN "magick" ELSE "convert"
check_dependencies(has_magick, has_convert) ==
    IF ~has_magick /\ ~has_convert THEN ""
    ELSE IF has_magick THEN "magick" ELSE "convert"

\* get_image_dimensions: the program the dimension query runs
IdentifyProg(sel) == IF sel = "magick" THEN "magick identify" ELSE "identify"

\* main: default output name <stem>-branded<suffix> next to the input
DefaultOutput(input) == IF input = "photo.png" THEN "photo-branded.png"
                        ELSE input

\* one executed delegated command
Cmd(op, prog, target, size, off, alpha, rc) ==
    [op |-> op, prog |-> prog, target |-> target, size |-> size,
     margin |-> off, opacity |-> alpha, rc |-> rc]

(* ---------------------------- initial state ---------------------------- *)
ArgvSet ==
    {[form |-> "noargs", logo |-> DEFAULT_LOGO, opacity |-> DefaultOpacity,
      output |-> ""],
     [form |-> "help", logo |-> DEFAULT_LOGO, opacity |-> DefaultOpacity,
      output |-> ""]}
    \cup [form : {"args"}, logo : LogoArgs, opacity : Opacities,
          output : OutputArgs]

Init ==
    /\ argv \in ArgvSet
    /\ fs_input \in BOOLEAN
    /\ fs_logo \in BOOLEAN
    /\ path_magick \in BOOLEAN
    /\ path_convert \in BOOLEAN
    /\ pc = "start"
    /\ magick_cmd = ""
    /\ output_image = ""
    /\ img_width = 0
    /\ img_height = 0
    /\ logo_size = 0
    /\ margin = 0
    /\ opacity_mult = OpacityMult(0)
    /\ tmp_logo = FALSE
    /\ output_written = FALSE
    /\ cmds = <<>>
    /\ printed = <<>>
    /\ unwinding = "none"
    /\ exit_status = {}

(* sys.exit(code) outside the try block, after printing msg                *)
Exit(code, msg) ==
    /\ pc' = "done"
    /\ exit_status' = {code}
    /\ printed' = Append(printed, msg)

(* ------------------------------- main ---------------------------------- *)
\* len(sys.argv) == 1: print help, exit 0
NoArgsHelp ==
    /\ pc = "start"
    /\ argv.form = "noargs"
    /\ Exit(0, "help")
    /\ UNCHANGED <<env, magick_cmd, output_image, geo, tmp_logo,
                   output_written, cmds, unwinding>>

\* parser.parse_args(): -h exits 0, a logo outside the choices exits 2
ParseArgs ==
    /\ pc = "start"
    /\ argv.form # "noargs"
    /\ IF argv.form = "help" THEN Exit(0, "help")
       ELSE IF argv.logo \notin LOGOS THEN Exit(ParserErrorStatus, "usage_error")
       ELSE /\ pc' = "parsed"
            /\ UNCHANGED <<exit_status, printed>>
    /\ UNCHANGED <<env, magick_cmd, output_image, geo, tmp_logo,
                   output_written, cmds, unwinding>>

\* opacity range check: parser.error(...) exits with status 2
ValidateOpacity ==
    /\ pc = "parsed"
    /\ IF OpacityInvalid(argv.opacity)
       THEN Exit(ParserErrorStatus, "usage_error")
       ELSE /\ pc' = "opacity_ok"
            /\ UNCHANGED <<exit_status, printed>>
    /\ UNCHANGED <<env, magick_cmd, output_image, geo, tmp_logo,
                   output_written, cmds, unwinding>>

\* os.path.exists(input_image)
ValidateInputNoExit ==
    /\ pc = "opacity_ok"
    /\ pc' = "input_ok"
    /\ printed' = IF ~fs_input THEN Append(printed, "input_not_found")
                  ELSE printed
    /\ UNCHANGED <<env, magick_cmd, output_image, geo, tmp_logo,
                   output_written, cmds, unwinding, exit_status>>
ValidateInputExitZero ==
    /\ pc = "opacity_ok"
    /\ IF ~fs_input THEN Exit(0, "input_not_found")
       ELSE /\ pc' = "input_ok"
            /\ UNCHANGED <<exit_status, printed>>
    /\ UNCHANGED <<env, magick_cmd, output_image, geo, tmp_logo,
                   output_written, cmds, unwinding>>
ValidateInput ==
    /\ pc = "opacity_ok"
    /\ IF ~fs_input THEN Exit(1, "input_not_found")
       ELSE /\ pc' = "input_ok"
            /\ UNCHANGED <<exit_status, printed>>
    /\ UNCHANGED <<env, magick_cmd, output_image, geo, tmp_logo,
                   output_written, cmds, unwinding>>

\* logo_svg = LOGOS[args.logo]; logo_svg.exists()
ResolveLogo ==
    /\ pc = "input_ok"
    /\ IF ~fs_logo THEN Exit(1, "logo_not_found")
       ELSE /\ pc' = "logo_ok"
            /\ UNCHANGED <<exit_status, printed>>
    /\ UNCHANGED <<env, magick_cmd, output_image, geo, tmp_logo,
                   output_written, cmds, unwinding>>

\* output filename: --output if given, else <input>-branded.<ext>
DetermineOutput ==
    /\ pc = "logo_ok"
    /\ output_image' = IF argv.output # "" THEN argv.output
                       ELSE DefaultOutput(InputPath)
    /\ pc' = "output_set"
    /\ UNCHANGED <<env, magick_cmd, geo, tmp_logo, output_written, cmds,
                   printed, unwinding, exit_status>>

\* the two `which` probes of check_dependencies
WhichLog ==
    <<Cmd("which", "which", "magick", 0, 0, OpacityMult(0),
          IF path_magick THEN "ok" ELSE "error"),
      Cmd("which", "which", "convert", 0, 0, OpacityMult(0),
          IF path_convert THEN "ok" ELSE "error")>>

\* magick_cmd = check_dependencies(); if not magick_cmd: sys.exit(1)
CheckDependencies ==
    /\ pc = "output_set"
    /\ cmds' = cmds \o WhichLog
    /\ magick_cmd' = check_dependencies(path_magick, path_convert)
    /\ IF magick_cmd' = "" THEN Exit(1, "missing_dependencies")
       ELSE /\ pc' = "deps_ok"
            /\ UNCHANGED <<exit_status, printed>>
    /\ UNCHANGED <<env, output_image, geo, tmp_logo, output_written,
                   unwinding>>

(* ------------------------------ add_logo ------------------------------- *)
\* get_image_dimensions: run identify, parse "<w> <h>".  A non-zero exit
\* (CalledProcessError) is caught and reported; output that is not two
\* integers (ValueError) and a missing identify program (FileNotFoundError)
\* are not caught and end the process with a traceback.
GetImageDimensions ==
    /\ pc = "deps_ok"
    /\ \E rc \in {"ok", "error", "unparsable", "notfound"},
          w \in Widths, h \in Heights :
          /\ rc = "notfound" => magick_cmd = "convert"
          /\ rc # "ok" => (w = 0 /\ h = 1)
          /\ cmds' = Append(cmds, Cmd("identify", IdentifyProg(magick_cmd),
                                      InputPath, 0, 0, OpacityMult(0), rc))
          /\ IF rc = "ok"
             THEN /\ img_width' = w
                  /\ img_height' = h
                  /\ pc' = "dims_read"
                  /\ UNCHANGED <<exit_status, printed>>
             ELSE /\ Exit(1, IF rc = "error" THEN "dimension_error"
                             ELSE "traceback")
                  /\ UNCHANGED <<img_width, img_height>>
    /\ UNCHANGED <<env, magick_cmd, output_image, logo_size, margin,
                   opacity_mult, tmp_logo, output_written, unwinding>>

\* logo_size, margin, opacity_mult and the informational prints
ComputeGeometry ==
    /\ pc = "dims_read"
    /\ logo_size' = LogoSize(img_width)
    /\ margin' = Margin(img_width)
    /\ opacity_mult' = OpacityMult(argv.opacity)
    /\ printed' = Append(printed, "info")
    /\ pc' = "geometry"
    /\ UNCHANGED <<env, magick_cmd, output_image, img_width, img_height,
                   tmp_logo, output_written, cmds, unwinding, exit_status>>

\* tempfile.NamedTemporaryFile(suffix='.png', delete=False); it may raise
CreateTemp ==
    /\ pc = "geometry"
    /\ \E ok \in BOOLEAN :
          IF ok
          THEN /\ tmp_logo' = TRUE
               /\ pc' = "tmp_created"
               /\ UNCHANGED <<exit_status, printed>>
          ELSE /\ Exit(1, "traceback")
               /\ UNCHANGED tmp_logo
    /\ UNCHANGED <<env, magick_cmd, output_image, geo, output_written, cmds,
                   unwinding>>

RasterizeCmd(rc) ==
    Cmd("rasterize", magick_cmd, "tmp", logo_size, 0, opacity_mult, rc)

\* first command of the try block: SVG -> temporary raster
RasterizeUnchecked ==
    /\ pc = "tmp_created"
    /\ \E rc \in {"ok", "error"} :
          /\ cmds' = Append(cmds, RasterizeCmd(rc))
          /\ pc' = "rasterized"
    /\ UNCHANGED <<env, magick_cmd, output_image, geo, tmp_logo,
                   output_written, printed, unwinding, exit_status>>
Rasterize ==
    /\ pc = "tmp_created"
    /\ \E rc \in {"ok", "error", "raise"}, kept \in BOOLEAN :
          /\ rc = "ok" => kept
          /\ cmds' = Append(cmds, RasterizeCmd(rc))
          /\ tmp_logo' = kept
          /\ IF rc = "ok"
             THEN /\ pc' = "rasterized"
                  /\ UNCHANGED <<printed, unwinding>>
             ELSE /\ pc' = "finally"
                  /\ unwinding' = IF rc = "error" THEN "SystemExit"
                                  ELSE "Exception"
                  /\ printed' = IF rc = "error"
                                THEN Append(printed, "svg_error")
                                ELSE printed
    /\ UNCHANGED <<env, magick_cmd, output_image, geo, output_written,
                   exit_status>>

CompositeCmd(rc) ==
    Cmd("composite", magick_cmd, output_image, 0, margin, OpacityMult(0), rc)

\* second command of the try block: overlay, written to output_image
CompositeUnchecked ==
    /\ pc = "rasterized"
    /\ \E rc \in {"ok", "error"}, wrote \in BOOLEAN :
          /\ rc = "ok" => wrote
          /\ cmds' = Append(cmds, CompositeCmd(rc))
          /\ output_written' = wrote
          /\ pc' = "composited"
    /\ UNCHANGED <<env, magick_cmd, output_image, geo, tmp_logo, printed,
                   unwinding, exit_status>>
Composite ==
    /\ pc = "rasterized"
    /\ \E rc \in {"ok", "error", "raise"}, wrote \in BOOLEAN :
          /\ rc = "ok" => wrote
          /\ cmds' = Append(cmds, CompositeCmd(rc))
          /\ output_written' = wrote
          /\ IF rc = "ok"
             THEN /\ pc' = "composited"
                  /\ UNCHANGED <<printed, unwinding>>
             ELSE /\ pc' = "finally"
                  /\ unwinding' = IF rc = "error" THEN "SystemExit"
                                  ELSE "Exception"
                  /\ printed' = IF rc = "error"
                                THEN Append(printed, "composite_error")
                                ELSE printed
    /\ UNCHANGED <<env, magick_cmd, output_image, geo, tmp_logo,
                   exit_status>>

\* print("Created: ..."), then the try block is left normally
Report ==
    /\ pc = "composited"
    /\ printed' = Append(printed, "created")
    /\ unwinding' = "return"
    /\ pc' = "finally"
    /\ UNCHANGED <<env, magick_cmd, output_image, geo, tmp_logo,
                   output_written, cmds, exit_status>>

\* finally: unlink the temporary file if it exists; then the process ends
\* with 0 (normal return), 1 (sys.exit(1)) or 1 and a traceback (exception)
CleanupOnSuccessOnly ==
    /\ pc = "finally"
    /\ tmp_logo' = IF unwinding = "return" THEN FALSE ELSE tmp_logo
    /\ exit_status' = IF unwinding = "return" THEN {0} ELSE {1}
    /\ printed' = IF unwinding = "Exception"
                  THEN Append(printed, "traceback") ELSE printed
    /\ pc' = "done"
    /\ UNCHANGED <<env, magick_cmd, output_image, geo, output_written, cmds,
                   unwinding>>
Finally ==
    /\ pc = "finally"
    /\ tmp_logo' = IF tmp_logo THEN FALSE ELSE tmp_logo
    /\ exit_status' = IF unwinding = "return" THEN {0} ELSE {1}
    /\ printed' = IF unwinding = "Exception"
                  THEN Append(printed, "traceback") ELSE printed
    /\ pc' = "done"
    /\ UNCHANGED <<env, magick_cmd, output_image, geo, output_written, cmds,
                   unwinding>>

Next ==
    \/ NoArgsHelp
    \/ ParseArgs
    \/ ValidateOpacity
    \/ ValidateInput
    \/ ResolveLogo
    \/ DetermineOutput
    \/ CheckDependencies
    \/ GetImageDimensions
    \/ ComputeGeometry
    \/ CreateTemp
    \/ Rasterize
    \/ Composite
    \/ Report
    \/ Finally

Spec == Init /\ [][Next]_vars

(* ------------------------- derived predicates -------------------------- *)
Done == pc = "done"
ExitCode == CHOOSE c \in exit_status : TRUE
Ran(op) == \E i \in 1..Len(cmds) : cmds[i].op = op
RanWith(op, rc) == \E i \in 1..Len(cmds) : cmds[i].op = op /\ cmds[i].rc = rc
Printed(msg) == \E i \in 1..Len(printed) : printed[i] = msg
Count(op) == Cardinality({i \in 1..Len(cmds) : cmds[i].op = op})
NoDelegation == cmds = <<>>
Parseable == argv.form = "args" /\ argv.logo \in LOGOS
OpacityInRange == argv.opacity >= OpacityLo /\ argv.opacity <= OpacityHi

NoTool == ~path_magick /\ ~path_convert
ToolFailed == \E i \in 1..Len(cmds) :
                 cmds[i].op \in {"identify", "rasterize", "composite"}
                 /\ cmds[i].rc # "ok"
RunSucceeded == RanWith("composite", "ok")
UsageFailure == argv.form = "args" /\ (argv.logo \notin LOGOS \/ ~OpacityInRange)
LaterFailure == /\ Parseable
                /\ OpacityInRange
                /\ (~fs_input \/ ~fs_logo \/ NoTool \/ ToolFailed)
Order == <<"which", "which", "identify", "rasterize", "composite">>

(* ------------------------------ claims --------------------------------- *)

\* C1: once the process has exited, on whatever path, the temporary
\* intermediate raster file created by add_logo does not exist.
C1_TempFileGone == Done => ~tmp_logo

C1_Witness ==
    /\ Done
    /\ RanWith("rasterize", "ok")
    /\ RanWith("composite", "raise")
    /\ Printed("traceback")
    /\ ~tmp_logo

\* C2 (as stated): the exit code is 0 when the run succeeds and exactly 1
\* on every validation failure and every delegated-tool failure.
C2_ExitOneOnEveryFailure ==
    Done => /\ RunSucceeded => exit_status = {0}
            /\ (UsageFailure \/ LaterFailure) => exit_status = {1}

\* C2 (amended): the exit code is 0 when the run succeeds, 2 when the
\* argument parser rejects the arguments (opacity out of range, unknown
\* logo name), and exactly 1 on every other validation failure and on
\* every delegated-tool failure.
C2_ExitCodes ==
    Done => /\ RunSucceeded => exit_status = {0}
            /\ UsageFailure => exit_status = {ParserErrorStatus}
            /\ LaterFailure => exit_status = {1}
            /\ exit_status \subseteq {0, 1, ParserErrorStatus}

C2_Witness ==
    /\ Done
    /\ Parseable
    /\ argv.opacity > OpacityHi
    /\ exit_status = {2}

\* C3: an opacity outside [0,100] is rejected before any delegated
\* invocation: no probe, no dimension query, no rasterize, no composite,
\* no temporary file and no output file.
C3_OpacityRejectedFirst ==
    (argv.form = "args" /\ ~OpacityInRange)
        => /\ NoDelegation
           /\ ~tmp_logo
           /\ ~output_written
           /\ pc \in {"start", "parsed", "done"}
           /\ Done => exit_status # {0}

C3_Witness ==
    /\ Done
    /\ Parseable
    /\ argv.opacity = OpacityHi + 1
    /\ Printed("usage_error")
    /\ NoDelegation

\* C4: with parseable arguments, an in-range opacity and a missing input
\* file, the program exits non-zero and runs no external command.
C4_MissingInputNoTool ==
    (Parseable /\ OpacityInRange /\ ~fs_input)
        => /\ NoDelegation
           /\ Done => (exit_status # {0} /\ Printed("input_not_found"))
           /\ pc \in {"start", "parsed", "opacity_ok", "done"}

C4_Witness ==
    /\ Done
    /\ Parseable
    /\ OpacityInRange
    /\ ~fs_input
    /\ path_magick
    /\ Printed("input_not_found")
    /\ exit_status = {1}

\* C5 (as stated): with no external tool available, every run started with
\* an input argument exits non-zero and prints the dependency-missing
\* message, whatever the other inputs are (here: even when the input file
\* or the logo asset is missing too).
C5_AlwaysDependencyMessage ==
    (Done /\ Parseable /\ OpacityInRange /\ NoTool)
        => (exit_status # {0} /\ Printed("missing_dependencies"))

\* C5 (amended): with no external tool available, a run whose arguments
\* parse, whose opacity is in range and whose input file and logo asset
\* exist exits with status 1 and prints the dependency-missing message;
\* a run that fails one of those earlier validations exits non-zero with
\* that validation's message instead, without probing for the tool.
C5_DependencyMessage ==
    (Done /\ argv.form = "args" /\ NoTool)
        => IF Parseable /\ OpacityInRange /\ fs_input /\ fs_logo
           THEN /\ exit_status = {1}
                /\ Printed("missing_dependencies")
                /\ Len(cmds) = 2
           ELSE /\ exit_status # {0}
                /\ ~Printed("missing_dependencies")
                /\ NoDelegation

C5_Witness ==
    /\ Done
    /\ NoTool
    /\ Printed("missing_dependencies")
    /\ exit_status = {1}
    /\ Count("which") = 2

\* C6: for every probed width W >= 0 the rasterize command uses
\* logo_size = W div 10 and the composite command uses margin = W div 50,
\* whatever the opacity and the logo.
C6_Geometry ==
    /\ pc \in {"geometry", "tmp_created", "rasterized", "composited", "finally"}
           => (logo_size = img_width \div 10 /\ margin = img_width \div 50)
    /\ \A i \in 1..Len(cmds) :
           /\ cmds[i].op = "rasterize" => cmds[i].size = img_width \div 10
           /\ cmds[i].op = "composite" => cmds[i].margin = img_width \div 50

C6_Witness ==
    /\ RanWith("composite", "ok")
    /\ img_width = 1000
    /\ argv.opacity = DefaultOpacity
    /\ \E i \in 1..Len(cmds) : cmds[i].op = "rasterize" /\ cmds[i].size = 100
    /\ \E i \in 1..Len(cmds) : cmds[i].op = "composite" /\ cmds[i].margin = 20

\* C7: the composite command, the only writer of the output path, runs
\* only after the rasterize command returned 0; when rasterize (or an
\* earlier step) fails the output path is never written.
C7_CompositeAfterRasterize ==
    /\ \A i \in 1..Len(cmds) :
           cmds[i].op = "composite"
               => \E j \in 1..(i - 1) :
                      cmds[j].op = "rasterize" /\ cmds[j].rc = "ok"
    /\ output_written => Ran("composite")
    /\ ~RanWith("rasterize", "ok") => ~output_written

C7_Witness ==
    /\ Done
    /\ RanWith("rasterize", "error")
    /\ ~Ran("composite")
    /\ ~output_written

\* C8 (as stated): when the dimension query fails, by a tool error or by
\* output that is not two integers, the dimension-read error message is
\* printed, the process exits non-zero and neither rasterize nor
\* composite runs.
C8_DimensionFailureReported ==
    (Done /\ (RanWith("identify", "error") \/ RanWith("identify", "unparsable")))
        => /\ Printed("dimension_error")
           /\ exit_status # {0}
           /\ ~Ran("rasterize")
           /\ ~Ran("composite")

\* C9: the probe selects "magick" whenever magick is present, "convert"
\* only when magick is absent and convert present, and fails exactly when
\* neither is present; the dimension query, rasterize and composite
\* commands all use the invocation form of that selector.
C9_Selector ==
    /\ Ran("which")
           => magick_cmd = IF path_magick THEN "magick"
                           ELSE IF path_convert THEN "convert" ELSE ""
    /\ (Ran("which") /\ NoTool) => (Done /\ Len(cmds) = 2)
    /\ \A i \in 1..Len(cmds) :
           /\ cmds[i].op = "identify"
                  => cmds[i].prog = IF path_magick THEN "magick identify"
                                    ELSE "identify"
           /\ cmds[i].op \in {"rasterize", "composite"}
                  => cmds[i].prog = IF path_magick THEN "magick"
                                    ELSE "convert"

C9_Witness ==
    /\ RanWith("composite", "ok")
    /\ ~path_magick
    /\ path_convert
    /\ \A i \in 3..Len(cmds) :
           cmds[i].prog = IF cmds[i].op = "identify" THEN "identify"
                          ELSE "convert"

\* C10: the steps run in the fixed order parse, probe, read dimensions,
\* compute geometry, rasterize, composite, report; each delegated
\* operation runs at most once and never after a failure, and "Created"
\* is printed only after the composite command returned 0.
C10_Sequential ==
    /\ Len(cmds) <= Len(Order)
    /\ \A i \in 1..Len(cmds) : cmds[i].op = Order[i]
    /\ \A i \in 3..(Len(cmds) - 1) : cmds[i].rc = "ok"
    /\ Len(cmds) > 2 => ~NoTool
    /\ pc = "start" => (cmds = <<>> /\ printed = <<>>)
    /\ Printed("info") => RanWith("identify", "ok")
    /\ Ran("rasterize") => Printed("info")
    /\ Printed("created") => RanWith("composite", "ok")
    /\ (Printed("svg_error") \/ Printed("composite_error")
          \/ Printed("dimension_error")) => ~Printed("created")

C10_Witness ==
    /\ Done
    /\ Len(cmds) = 5
    /\ printed = <<"info", "created">>
    /\ exit_status = {0}

====
